---- MODULE Spec2Model ----
(***************************************************************************)
(* Model of SMS.py: the APIError exception type, the module-level helper   *)
(* fetch_data, and the SMSClient dispatcher (_request) with the business   *)
(* methods that call through it.                                           *)
(*                                                                         *)
(* Python values are records tagged with their type.  The remote service   *)
(* is the environment: every HTTP exchange ends either in a transport      *)
(* exception (no response) or in a response with a status code and a body. *)
(* The requests library is modelled by its documented behaviour:           *)
(*   - Session.request sends the session's headers with every request;     *)
(*   - Response.raise_for_status raises HTTPError iff 400 <= status < 600  *)
(*     (a 300 Multiple Choices answer is handed back like a 200);          *)
(*   - Response.json raises requests.exceptions.JSONDecodeError (a         *)
(*     RequestException) when the body is not JSON;                        *)
(*   - ConnectionError, Timeout and HTTPError are RequestExceptions.       *)
(***************************************************************************)
EXTENDS Integers, Sequences, FiniteSets, TLC

VARIABLES api_key, session_headers, sent, log, last

vars == <<api_key, session_headers, sent, log, last>>

(* ---------------------------- bounds ---------------------------------- *)

\* total number of HTTP requests issued in one behaviour
MaxRequests == 2

\* longest recipient list handed to a bulk operation
MaxMobiles == 2

(* ------------------------- Python values ------------------------------ *)

PyNone == [type |-> "NoneType"]

PyInt(n) == [type |-> "int", v |-> n]

PyStr(s) == [type |-> "str", v |-> s]

PyDict(f) == [type |-> "dict", v |-> f]

PyDatetime(y, mo, d, h, mi, s) ==
    [type |-> "datetime", year |-> y, month |-> mo, day |-> d,
     hour |-> h, minute |-> mi, second |-> s]

\* truth value of a Python object in `if x:`
Truthy(x) ==
    CASE x.type = "NoneType" -> FALSE
      [] x.type = "int"      -> x.v # 0
      [] x.type = "str"      -> x.v # ""
      [] x.type = "dict"     -> DOMAIN x.v # {}
      [] OTHER               -> TRUE

\* str(x) as an f-string interpolates it
PyFormat(x) ==
    CASE x.type = "NoneType" -> "None"
      [] x.type = "int"      -> ToString(x.v)
      [] x.type = "str"      -> x.v
      [] OTHER               -> "<object>"

\* dict.get(key, default)
DictGet(d, key, default) ==
    IF key \in DOMAIN d.v THEN d.v[key] ELSE default

(* ----------------------------- APIError ------------------------------- *)

\* APIError(message, status_code=None)
APIError(message, status_code) ==
    [class |-> "APIError", message |-> message, status_code |-> status_code]

\* APIError.__str__
APIError__str__(e) ==
    IF Truthy(e.status_code)
    THEN "APIError " \o PyFormat(e.status_code) \o ": " \o e.message
    ELSE "APIError: " \o e.message

(* ------------------------- the remote service ------------------------- *)

BASE_URL == "https://api.sms.ir/v1"

Timeout == 10

Statuses == {200, 300, 404}

\* response bodies as they arrive on the wire: a JSON object written as a
\* list of members (a member name may repeat), a JSON number, or text that
\* is not JSON (an empty body, an HTML error page)
Bodies ==
    { [kind |-> "object", members |-> << >>],
      [kind |-> "object", members |-> << <<"credit", 0>>, <<"credit", 1500>> >>],
      [kind |-> "number", n |-> 7],
      [kind |-> "text"] }

TransportFailures == {"ConnectionError", "Timeout"}

\* what the environment does with one request: the exchange fails below
\* HTTP, or a response arrives
Exchanges ==
    { [kind |-> "transport", exc |-> x] : x \in TransportFailures }
    \cup
    { [kind |-> "response", status |-> 200, body |-> b] : b \in Bodies }
    \cup
    { [kind |-> "response", status |-> s, body |-> b] :
         s \in Statuses \ {200},
         b \in { [kind |-> "object", members |-> << >>], [kind |-> "text"] } }

RECURSIVE JsonObject(_)
\* json.loads on an object: the last occurrence of a member name wins
JsonObject(members) ==
    IF members = << >> THEN << >>
    ELSE LET n    == Len(members)
             m    == members[n]
             rest == JsonObject(SubSeq(members, 1, n - 1))
         IN [k \in DOMAIN rest \cup {m[1]} |->
                IF k = m[1] THEN PyInt(m[2]) ELSE rest[k]]

\* Response.json() succeeds
JsonDecodable(body) == body.kind # "text"

\* Response.json()
Json(body) ==
    IF body.kind = "object" THEN PyDict(JsonObject(body.members))
    ELSE PyInt(body.n)

\* Response.raise_for_status() raises HTTPError
RaisesForStatus(status) == 400 <= status /\ status < 600

\* str(e) of the RequestException an exchange ends in
ExcStr(exc, status, url) ==
    CASE exc = "HTTPError" ->
            ToString(status)
            \o (IF status < 500 THEN " Client Error" ELSE " Server Error")
            \o " for url: " \o url
      [] exc = "JSONDecodeError" -> "Expecting value: line 1 column 1 (char 0)"
      [] exc = "Timeout" -> "Read timed out. (read timeout=" \o ToString(Timeout) \o ")"
      [] OTHER -> "Max retries exceeded with url: " \o url

\* the RequestException raised inside the try block, or "" when the block
\* runs to its return statement
RequestException(x) ==
    IF x.kind = "transport" THEN x.exc
    ELSE IF RaisesForStatus(x.status) THEN "HTTPError"
    ELSE IF ~JsonDecodable(x.body) THEN "JSONDecodeError"
    ELSE ""

(* ------------------------ outcomes of a call -------------------------- *)

Return(value) == [kind |-> "return", value |-> value]

Raise(exc) == [kind |-> "raise", exc |-> exc]

\* one record of sms.log (logging.basicConfig: level and message; the
\* message is kept as its template and the values interpolated into it)
LogEntry(level, template, args) ==
    [level |-> level, template |-> template, args |-> args]

\* the state a handler threads through its calls, and what the call gave
Step(s, l, outcome) == [sent |-> s, log |-> l, outcome |-> outcome]

(* --------------------------- SMSClient -------------------------------- *)

\* SMSClient.__init__: the headers of the session
InitHeaders(key) ==
    [h \in {"Content-Type", "Accept", "x-api-key"} |->
        CASE h = "Content-Type" -> "application/json"
          [] h = "Accept"       -> "text/plain"
          [] OTHER              -> key]

\* the request as requests.request would send it, without the session
PlainRequest(method, url, data) ==
    [via |-> "SMSClient._request", method |-> method, url |-> url,
     headers |-> [h \in {"Accept"} |-> "*/*"], json |-> data, timeout |-> Timeout]

\* self.session.request(method, url, json=data, timeout=10): the request
\* that leaves the process
SessionRequest(method, url, data) ==
    [via |-> "SMSClient._request", method |-> method, url |-> url,
     headers |-> session_headers, json |-> data, timeout |-> Timeout]

\* the APIError with the status code defaulting to 0
RequestErrorZero(e) == APIError("API request failed: " \o e, PyInt(0))

\* the APIError _request raises from its except clause
RequestError(e) == APIError("API request failed: " \o e, PyNone)

\* _request handing back the decoded body inside an envelope
_request_envelope(h, method, endpoint, data, x) ==
    LET url  == BASE_URL \o "/" \o endpoint
        s    == Append(h.sent, SessionRequest(method, url, data))
        exc  == RequestException(x)
        e    == ExcStr(exc, IF x.kind = "response" THEN x.status ELSE 0, url)
    IN IF exc = ""
       THEN Step(s, h.log, Return(PyDict([k \in {"data"} |-> Json(x.body)])))
       ELSE Step(s,
                 Append(h.log, LogEntry("ERROR", "request failed", <<PyStr(url), PyStr(e)>>)),
                 Raise(RequestError(e)))

\* _request sending the request a second time after a failure
_request_retry(h, method, endpoint, data, x) ==
    LET url  == BASE_URL \o "/" \o endpoint
        s    == Append(h.sent, SessionRequest(method, url, data))
        exc  == RequestException(x)
        e    == ExcStr(exc, IF x.kind = "response" THEN x.status ELSE 0, url)
    IN IF exc = ""
       THEN Step(s, h.log, Return(Json(x.body)))
       ELSE Step(Append(s, SessionRequest(method, url, data)),
                 Append(h.log, LogEntry("ERROR", "request failed", <<PyStr(url), PyStr(e)>>)),
                 Raise(RequestError(e)))

\* SMSClient._request, x being what the remote end does with the request
_request(h, method, endpoint, data, x) ==
    LET url  == BASE_URL \o "/" \o endpoint
        s    == Append(h.sent, SessionRequest(method, url, data))
        exc  == RequestException(x)
        e    == ExcStr(exc, IF x.kind = "response" THEN x.status ELSE 0, url)
    IN IF exc = ""
       THEN Step(s, h.log, Return(Json(x.body)))
       ELSE Step(s,
                 Append(h.log, LogEntry("ERROR", "request failed", <<PyStr(url), PyStr(e)>>)),
                 Raise(RequestError(e)))

\* the request body of send/verify
SmsData(mobile, template_id, parameters) ==
    PyDict([k \in {"mobile", "templateId", "parameters"} |->
        CASE k = "mobile"     -> mobile
          [] k = "templateId" -> template_id
          [] OTHER            -> parameters])

\* SMSClient.send_sms
send_sms(h, mobile, template_id, parameters, x) ==
    LET r == _request(h, "POST", "send/verify", SmsData(mobile, template_id, parameters), x)
    IN IF r.outcome.kind = "raise" THEN r
       ELSE Step(r.sent,
                 Append(r.log, LogEntry("INFO", "sms sent", <<mobile, r.outcome.value>>)),
                 r.outcome)

RECURSIVE BulkLoop(_, _, _, _, _)
\* the loop of send_bulk_sms and of send_bulk_sms_with_different_values
\* from message i on: results[mobile] = self.send_sms(...), plan[i] being
\* what the remote end does with the request for message i.  Nothing
\* catches an exception of send_sms: it leaves the loop and the method.
BulkLoop(h, messages, plan, i, results) ==
    IF i > Len(messages) THEN Step(h.sent, h.log, Return(PyDict(results)))
    ELSE LET msg == messages[i]
             r   == send_sms(h, msg.mobile, msg.template_id, msg.parameters, plan[i])
         IN IF r.outcome.kind = "raise" THEN r
            ELSE BulkLoop(r, messages, plan, i + 1,
                          [k \in DOMAIN results \cup {msg.mobile.v} |->
                              IF k = msg.mobile.v THEN r.outcome.value ELSE results[k]])

\* SMSClient.send_bulk_sms
send_bulk_sms(h, mobiles, template_id, parameters, plan) ==
    BulkLoop(h,
             [i \in 1..Len(mobiles) |->
                 [mobile |-> mobiles[i], template_id |-> template_id,
                  parameters |-> parameters]],
             plan, 1, << >>)

\* send_bulk_sms_with_different_values
send_bulk_sms_with_different_values(h, messages, plan) ==
    BulkLoop(h, messages, plan, 1, << >>)

\* check_credit reading response["credit"]
check_credit_subscript(h, x) ==
    LET r == _request(h, "GET", "credit", PyNone, x)
    IN IF r.outcome.kind = "raise" THEN r
       ELSE IF r.outcome.value.type # "dict"
       THEN Step(r.sent, r.log,
                 Raise([class |-> "TypeError", message |-> "not subscriptable"]))
       ELSE IF "credit" \notin DOMAIN r.outcome.value.v
       THEN Step(r.sent, r.log,
                 Raise([class |-> "KeyError", message |-> "credit"]))
       ELSE LET credit == r.outcome.value.v["credit"]
            IN Step(r.sent,
                    Append(r.log, LogEntry("INFO", "credit", <<credit>>)),
                    Return(credit))

\* SMSClient.check_credit
check_credit(h, x) ==
    LET r == _request(h, "GET", "credit", PyNone, x)
    IN IF r.outcome.kind = "raise" THEN r
       ELSE IF r.outcome.value.type # "dict"
       THEN Step(r.sent, r.log,
                 Raise([class |-> "AttributeError", message |-> "get"]))
       ELSE LET credit == DictGet(r.outcome.value, "credit", PyNone)
            IN Step(r.sent,
                    Append(r.log, LogEntry("INFO", "credit", <<credit>>)),
                    Return(credit))

\* n in decimal, zero-padded to two digits (strftime %m %d %H %M %S)
Pad2(n) == IF n < 10 THEN "0" \o ToString(n) ELSE ToString(n)

\* n in decimal, zero-padded to four digits (strftime %Y)
Pad4(n) ==
    IF n < 10 THEN "000" \o ToString(n)
    ELSE IF n < 100 THEN "00" \o ToString(n)
    ELSE IF n < 1000 THEN "0" \o ToString(n)
    ELSE ToString(n)

\* send_time.strftime("%Y-%m-%d %H:%M:%S")
Strftime(t) ==
    Pad4(t.year) \o "-" \o Pad2(t.month) \o "-" \o Pad2(t.day) \o " "
    \o Pad2(t.hour) \o ":" \o Pad2(t.minute) \o ":" \o Pad2(t.second)

\* isinstance(send_time, datetime)
IsDatetime(send_time) == send_time.type = "datetime"

\* the request body of send/schedule
ScheduleData(mobile, template_id, parameters, formatted_time) ==
    PyDict([k \in {"mobile", "templateId", "parameters", "sendDateTime"} |->
        CASE k = "mobile"     -> mobile
          [] k = "templateId" -> template_id
          [] k = "parameters" -> parameters
          [] OTHER            -> PyStr(formatted_time)])

\* schedule_sms checking send_time only after the request went out
schedule_sms_late(h, mobile, template_id, parameters, send_time, x) ==
    LET formatted_time == IF IsDatetime(send_time) THEN Strftime(send_time)
                          ELSE PyFormat(send_time)
        r == _request(h, "POST", "send/schedule",
                      ScheduleData(mobile, template_id, parameters, formatted_time), x)
    IN IF r.outcome.kind = "raise" THEN r
       ELSE IF ~IsDatetime(send_time)
       THEN Step(r.sent, r.log,
                 Raise([class |-> "ValueError", message |-> "send_time must be a datetime object"]))
       ELSE Step(r.sent,
                 Append(r.log, LogEntry("INFO", "sms scheduled",
                                        <<PyStr(formatted_time), r.outcome.value>>)),
                 r.outcome)

\* SMSClient.schedule_sms
schedule_sms(h, mobile, template_id, parameters, send_time, x) ==
    IF ~IsDatetime(send_time)
    THEN Step(h.sent, h.log,
              Raise([class |-> "ValueError", message |-> "send_time must be a datetime object"]))
    ELSE LET formatted_time == Strftime(send_time)
             r == _request(h, "POST", "send/schedule",
                          ScheduleData(mobile, template_id, parameters, formatted_time), x)
         IN IF r.outcome.kind = "raise" THEN r
            ELSE Step(r.sent,
                      Append(r.log, LogEntry("INFO", "sms scheduled",
                                             <<PyStr(formatted_time), r.outcome.value>>)),
                      r.outcome)

\* cancel_scheduled_sms
cancel_scheduled_sms(h, message_id, x) ==
    LET r == _request(h, "DELETE", "sms/schedule/" \o PyFormat(message_id), PyNone, x)
    IN IF r.outcome.kind = "raise" THEN r
       ELSE Step(r.sent,
                 Append(r.log, LogEntry("INFO", "sms cancelled", <<message_id, r.outcome.value>>)),
                 r.outcome)

(* ---------------------------- fetch_data ------------------------------ *)

\* requests.get(url, timeout=10): no session, so only the library's own
\* default headers
GetRequest(url) ==
    [via |-> "fetch_data", method |-> "GET", url |-> url,
     headers |-> [h \in {"Accept"} |-> "*/*"], json |-> PyNone, timeout |-> Timeout]

\* fetch_data: status_code is that of the response when the name
\* `response` is bound, None otherwise
fetch_data(h, url, x) ==
    LET s == Append(h.sent, GetRequest(url))
    IN IF RequestException(x) = ""
       THEN Step(s, h.log, Return(Json(x.body)))
       ELSE Step(s, h.log,
                 Raise(APIError("request to the API failed",
                                IF x.kind = "response" THEN PyInt(x.status) ELSE PyNone)))

(* ------------------------------ inputs -------------------------------- *)

ApiKeys == {"YOURAPIKEY", "OTHERKEY"}

Mobiles == {PyStr("09123456789"), PyStr("09351234567")}

Mobile == PyStr("09123456789")

TemplateId == PyInt(12345)

Parameters == PyStr("CODE=000000")

Methods == {"GET", "POST", "DELETE"}

SendTimes ==
    { PyDatetime(2026, 1, 5, 9, 3, 7), PyStr("2026-01-05 09:03:07") }

MessageIds == {PyStr("1234567890")}

Messages == {"X"}

StatusCodes == {PyNone, PyInt(0), PyInt(404)}

\* the recipient lists of a bulk operation
MobileLists == UNION { [1..n -> Mobiles] : n \in 0..MaxMobiles }

\* what the remote end does during a bulk operation
BulkExchanges ==
    { [kind |-> "response", status |-> 404, body |-> [kind |-> "text"]],
      [kind |-> "response", status |-> 200,
       body |-> [kind |-> "object", members |-> << >>]] }

(* ------------------------------ actions ------------------------------- *)

Here == [sent |-> sent, log |-> log]

\* the call `op(args)` ran as r says; x is what the remote end did
Done(op, args, x, r) ==
    /\ sent' = r.sent
    /\ log' = r.log
    /\ last' = [op |-> op, args |-> args, x |-> x, first |-> Len(sent) + 1,
                outcome |-> r.outcome]
    /\ UNCHANGED <<api_key, session_headers>>

Init ==
    /\ api_key \in ApiKeys
    /\ session_headers = InitHeaders(api_key)
    /\ sent = << >>
    /\ log = << >>
    /\ last = [op |-> "__init__", args |-> <<PyStr(api_key)>>, x |-> << >>,
               first |-> 1, outcome |-> Return(PyNone)]

Dispatch ==
    /\ Len(sent) < MaxRequests
    /\ \E method \in Methods, x \in Exchanges :
          Done("_request", <<method, "credit", PyNone>>, x,
               _request(Here, method, "credit", PyNone, x))

SendSms ==
    /\ Len(sent) < MaxRequests
    /\ \E x \in Exchanges :
          Done("send_sms", <<Mobile, TemplateId, Parameters>>, x,
               send_sms(Here, Mobile, TemplateId, Parameters, x))

SendBulkSms ==
    \E mobiles \in MobileLists :
       /\ Len(sent) + Len(mobiles) <= MaxRequests
       /\ \E plan \in [1..Len(mobiles) -> BulkExchanges] :
             Done("send_bulk_sms", <<mobiles, TemplateId, Parameters>>, plan,
                  send_bulk_sms(Here, mobiles, TemplateId, Parameters, plan))

SendBulkSmsWithDifferentValues ==
    \E mobiles \in MobileLists :
       /\ Len(sent) + Len(mobiles) <= MaxRequests
       /\ \E plan \in [1..Len(mobiles) -> BulkExchanges] :
             LET messages == [i \in 1..Len(mobiles) |->
                                [mobile |-> mobiles[i], template_id |-> TemplateId,
                                 parameters |-> Parameters]]
             IN Done("send_bulk_sms_with_different_values", <<messages>>, plan,
                     send_bulk_sms_with_different_values(Here, messages, plan))

CheckCredit ==
    /\ Len(sent) < MaxRequests
    /\ \E x \in Exchanges :
          Done("check_credit", << >>, x, check_credit(Here, x))

ScheduleSms ==
    /\ Len(sent) < MaxRequests
    /\ \E send_time \in SendTimes, x \in Exchanges :
          Done("schedule_sms", <<Mobile, TemplateId, Parameters, send_time>>, x,
               schedule_sms(Here, Mobile, TemplateId, Parameters, send_time, x))

CancelScheduledSms ==
    /\ Len(sent) < MaxRequests
    /\ \E message_id \in MessageIds, x \in Exchanges :
          Done("cancel_scheduled_sms", <<message_id>>, x,
               cancel_scheduled_sms(Here, message_id, x))

\* a call of fetch_data, as the module makes one when it is loaded
FetchData ==
    /\ Len(sent) < MaxRequests
    /\ \E x \in Exchanges :
          Done("fetch_data", <<"https://api.example.com/data">>, x,
               fetch_data(Here, "https://api.example.com/data", x))

\* str(APIError(message, status_code))
Render ==
    \E message \in Messages, status_code \in StatusCodes :
       LET e == APIError(message, status_code)
       IN Done("__str__", <<e>>, << >>,
               Step(sent, log, Return(PyStr(APIError__str__(e)))))

Next ==
    \/ Dispatch
    \/ SendSms
    \/ SendBulkSms
    \/ SendBulkSmsWithDifferentValues
    \/ CheckCredit
    \/ ScheduleSms
    \/ CancelScheduledSms
    \/ FetchData
    \/ Render

Spec == Init /\ [][Next]_vars

(* ---------------------------- properties ------------------------------ *)

\* the last call was a direct call of the dispatcher
Dispatched == last.op = "_request"

\* the requests the last call issued
Issued == SubSeq(sent, last.first, Len(sent))

\* a 2xx status
Success(status) == 200 <= status /\ status <= 299

\* the value of the last member named k of a JSON object on the wire
LastMember(members, k) ==
    LET i == CHOOSE n \in 1..Len(members) :
                /\ members[n][1] = k
                /\ \A m \in (n + 1)..Len(members) : members[m][1] # k
    IN members[i][2]

\* the names of the members of a JSON object on the wire
MemberNames(members) == { members[i][1] : i \in 1..Len(members) }

\* C1: every request the dispatcher has issued, whatever its verb, carries
\* the x-api-key header with the api_key the client was constructed with.
C1_RequestsCarryApiKey ==
    \A i \in 1..Len(sent) :
       sent[i].via = "SMSClient._request" =>
          /\ sent[i].method \in Methods
          /\ "x-api-key" \in DOMAIN sent[i].headers
          /\ sent[i].headers["x-api-key"] = api_key

\* C1 witness: the dispatcher has issued a DELETE and a POST request.
C1_Witness ==
    /\ \E i \in 1..Len(sent) :
          sent[i].via = "SMSClient._request" /\ sent[i].method = "DELETE"
    /\ \E i \in 1..Len(sent) :
          sent[i].via = "SMSClient._request" /\ sent[i].method = "POST"

\* C2: a dispatcher call answered with a non-2xx status raises an APIError
\* whose status_code is the status of the response.
C2_StatusCodeOfResponse ==
    (Dispatched /\ last.x.kind = "response" /\ ~Success(last.x.status)) =>
       /\ last.outcome.kind = "raise"
       /\ last.outcome.exc.class = "APIError"
       /\ last.outcome.exc.status_code = PyInt(last.x.status)

\* C3: a dispatcher call whose exchange fails below HTTP raises an APIError
\* whose status_code is None.
C3_TransportFailureNoStatus ==
    (Dispatched /\ last.x.kind = "transport") =>
       /\ last.outcome.kind = "raise"
       /\ last.outcome.exc.class = "APIError"
       /\ last.outcome.exc.status_code = PyNone

\* C3 witness: a dispatcher call ended in a timeout and raised.
C3_Witness ==
    /\ Dispatched
    /\ last.x.kind = "transport"
    /\ last.x.exc = "Timeout"
    /\ last.outcome.kind = "raise"

\* C4: the dispatcher returns a value only after a 2xx response, and raises
\* APIError for every other outcome of the exchange.
C4_ValueOnlyOnSuccess ==
    Dispatched =>
       LET ok == last.x.kind = "response" /\ Success(last.x.status)
       IN /\ last.outcome.kind = "return" => ok
          /\ ~ok => /\ last.outcome.kind = "raise"
                    /\ last.outcome.exc.class = "APIError"

\* C5: a bulk send in which one recipient's call fails and a later one's
\* succeeds issues a request for every recipient and returns a mapping
\* with an entry for each of them.
C5_BulkContinuesAfterFailure ==
    ( /\ last.op \in {"send_bulk_sms", "send_bulk_sms_with_different_values"}
      /\ \E i, j \in DOMAIN last.x :
            /\ i < j
            /\ RequestException(last.x[i]) # ""
            /\ RequestException(last.x[j]) = "" ) =>
       /\ Len(Issued) = Len(last.x)
       /\ last.outcome.kind = "return"
       /\ \A i \in 1..Len(Issued) :
             Issued[i].json.v["mobile"].v \in DOMAIN last.outcome.value.v

\* C6: a dispatcher call that returns, returns the value decoded from the
\* response body: for an object exactly its member names, each with the
\* value it has on the wire; for a number that number.
C6_ReturnsDecodedBody ==
    (Dispatched /\ last.outcome.kind = "return") =>
       LET body  == last.x.body
           value == last.outcome.value
       IN IF body.kind = "object"
          THEN /\ value.type = "dict"
               /\ DOMAIN value.v = MemberNames(body.members)
               /\ \A k \in DOMAIN value.v :
                     value.v[k] = PyInt(LastMember(body.members, k))
          ELSE /\ body.kind = "number"
               /\ value = PyInt(body.n)

\* C6 witness: the dispatcher returned a decoded object that has a member.
C6_Witness ==
    /\ Dispatched
    /\ last.outcome.kind = "return"
    /\ last.outcome.value.type = "dict"
    /\ "credit" \in DOMAIN last.outcome.value.v

\* C7: schedule_sms with a send_time that is not a datetime raises
\* ValueError and issues no request.
C7_ScheduleRejectsNonDatetime ==
    (last.op = "schedule_sms" /\ last.args[4].type # "datetime") =>
       /\ last.outcome.kind = "raise"
       /\ last.outcome.exc.class = "ValueError"
       /\ Issued = << >>

\* C7 witness: schedule_sms was called with a string after an earlier
\* request of the client.
C7_Witness ==
    /\ last.op = "schedule_sms"
    /\ last.args[4].type = "str"
    /\ last.outcome.kind = "raise"
    /\ sent # << >>

\* C8: an APIError renders as "APIError <code>: <message>" when it has a
\* status code (0 included) and as "APIError: <message>" when it has none.
C8_RenderShowsStatusCode ==
    last.op = "__str__" =>
       LET e == last.args[1]
       IN last.outcome.value.v =
             IF e.status_code # PyNone
             THEN "APIError " \o ToString(e.status_code.v) \o ": " \o e.message
             ELSE "APIError: " \o e.message

\* C9: check_credit issues one GET to the path credit; when the dispatcher
\* returns an object it returns the value of its member credit, and None
\* when the object has no such member.
C9_CheckCreditExtracts ==
    last.op = "check_credit" =>
       /\ Len(Issued) = 1
       /\ Issued[1].method = "GET"
       /\ Issued[1].url = "https://api.sms.ir/v1/credit"
       /\ ( /\ last.x.kind = "response"
            /\ ~(400 <= last.x.status /\ last.x.status < 600)
            /\ last.x.body.kind = "object" ) =>
             last.outcome =
                IF "credit" \in MemberNames(last.x.body.members)
                THEN Return(PyInt(LastMember(last.x.body.members, "credit")))
                ELSE Return(PyNone)

\* C9 witness: check_credit returned None for an object without the member.
C9_Witness ==
    /\ last.op = "check_credit"
    /\ last.x.kind = "response"
    /\ last.x.body.kind = "object"
    /\ last.x.body.members = << >>
    /\ last.outcome = Return(PyNone)

\* C10: a dispatcher call adds exactly one request; when it fails it raises
\* APIError after adding exactly one ERROR record naming the URL of that
\* request, and when it returns it adds nothing to the log.
C10_OneAttemptOneReport ==
    [][ last'.op = "_request" =>
          /\ Len(sent') = Len(sent) + 1
          /\ SubSeq(sent', 1, Len(sent)) = sent
          /\ last'.outcome.kind = "raise" =>
                /\ last'.outcome.exc.class = "APIError"
                /\ Len(log') = Len(log) + 1
                /\ SubSeq(log', 1, Len(log)) = log
                /\ log'[Len(log')].level = "ERROR"
                /\ log'[Len(log')].args[1] = PyStr(sent'[Len(sent')].url)
          /\ last'.outcome.kind = "return" => log' = log
          /\ (last'.x.kind = "transport" \/ last'.x.status >= 400) =>
                last'.outcome.kind = "raise"
      ]_vars

\* C10 witness: a dispatcher call failed on a 404 and the log has a record.
C10_Witness ==
    /\ Dispatched
    /\ last.x.kind = "response"
    /\ last.x.status = 404
    /\ last.outcome.kind = "raise"
    /\ log # << >>

====
